---- MODULE Spec2Model ----
(***************************************************************************)
(* Model of virtual_critical_load: the Enphase credential/session object   *)
(* (enphase/enphase.py) and the polling loop (__main__.py).                *)
(*                                                                         *)
(* Time is in whole epoch seconds.  Python values that the code tests for  *)
(* truthiness or passes to int() are records [k, v]:                       *)
(*   k = "num"   a JSON number v                                           *)
(*   k = "str"   a string of digits denoting v                             *)
(*   k = "empty" the empty string                                          *)
(*   k = "bad"   a non-numeric string                                      *)
(*   k = "none"  None (a missing / null field)                             *)
(***************************************************************************)
EXTENDS Integers, Sequences, FiniteSets, TLC

\* ------------------------------------------------------------------ bounds
MaxTime == 3
MaxCycles == 3
MaxDevices == 1
ReduceDevices == 2

\* ----------------------------------------------------------- Python values
Num(n) == [k |-> "num", v |-> n]
Str(n) == [k |-> "str", v |-> n]
PyNone == [k |-> "none", v |-> 0]
PyEmpty == [k |-> "empty", v |-> 0]
PyBad == [k |-> "bad", v |-> 0]

\* bool(x) as Python's `if x` / `and` evaluates it
Truthy(x) ==
    CASE x.k = "num" -> x.v # 0
      [] x.k = "str" -> TRUE
      [] x.k = "bad" -> TRUE
      [] OTHER -> FALSE

\* int(x): "ok" with a value, or the exception int() raises
PyInt(x) ==
    CASE x.k = "num" -> [err |-> "ok", val |-> x.v]
      [] x.k = "str" -> [err |-> "ok", val |-> x.v]
      [] x.k = "none" -> [err |-> "TypeError", val |-> 0]
      [] OTHER -> [err |-> "ValueError", val |-> 0]

Times == 1..MaxTime
Stamps == 0..MaxTime
StampVals == {Num(n) : n \in Stamps} \cup {Str(n) : n \in Stamps}
                 \cup {PyNone, PyEmpty, PyBad}

\* ------------------------------------------------------------ EnphaseToken
EnphaseToken(t, g, e) == [token |-> t, generation_time |-> g, expires_at |-> e]
NoToken == EnphaseToken("none", PyNone, PyNone)

\* property start: int() errors are re-raised as Exception
TokenStart(tok) ==
    LET r == PyInt(tok.generation_time)
    IN  IF r.err = "ok" THEN r ELSE [err |-> "Exception", val |-> 0]

\* property end
TokenEnd(tok) ==
    LET r == PyInt(tok.expires_at)
    IN  IF r.err = "ok" THEN r ELSE [err |-> "Exception", val |-> 0]

\* is_valid at clock reading t: "True", "False" or "Exception".
\* The chained comparison evaluates start, then (only if start <= now) end.
is_valid(tok, t) ==
    IF Truthy(tok.generation_time) /\ Truthy(tok.expires_at)
    THEN IF TokenStart(tok).err # "ok" THEN "Exception"
         ELSE IF ~(TokenStart(tok).val <= t) THEN "False"
         ELSE IF TokenEnd(tok).err # "ok" THEN "Exception"
         ELSE IF t <= TokenEnd(tok).val THEN "True" ELSE "False"
    ELSE "Exception"

\* ----------------------------------------------------------- EnphaseConfig
EnphaseConfig(u, p, s) ==
    [username |-> u, password |-> p, serial |-> s,
     envoy |-> "envoy.local", site_id |-> "site"]
NoConfig ==
    [username |-> "", password |-> "", serial |-> "",
     envoy |-> "none", site_id |-> "none"]

\* ------------------------------------------------- persisted enphase.config
NoFile == [exists |-> FALSE, config |-> NoConfig, token |-> NoToken]
FileOf(c, tok) == [exists |-> TRUE, config |-> c, token |-> tok]

\* json.dumps / json.loads of one field value: numbers, strings and null
\* keep their JSON type.
JsonDump(x) ==
    CASE x.k = "num" -> <<"number", x.v>>
      [] x.k = "str" -> <<"string", "digits", x.v>>
      [] x.k = "empty" -> <<"string", "empty", 0>>
      [] x.k = "bad" -> <<"string", "text", 0>>
      [] OTHER -> <<"null">>

JsonLoad(j) ==
    CASE j[1] = "number" -> Num(j[2])
      [] j[1] = "string" /\ j[2] = "digits" -> Str(j[3])
      [] j[1] = "string" /\ j[2] = "empty" -> PyEmpty
      [] j[1] = "string" /\ j[2] = "text" -> PyBad
      [] OTHER -> PyNone

\* -------------------------------------------------------- cloud responses
LoginResponses == {"ok", "rejected", "unreachable"}
\* what the token endpoint can answer at time t: a transport error, a body
\* that is not JSON, a JSON object lacking a field, or a token triple issued
\* at t (with a usable or an unusable expires_at)
TokenBodies(t) ==
    {EnphaseToken("t1", Num(t), e) : e \in {Num(n) : n \in t..MaxTime} \cup {PyBad}}
TokenResponses(t) ==
    {[kind |-> k, body |-> NoToken] : k \in {"unreachable", "notjson", "missingfield"}}
        \cup {[kind |-> "token", body |-> b] : b \in TokenBodies(t)}

\* get_new_token: the guard raises only when all three fields are empty;
\* the login response's status is never inspected.
get_new_token(cfg, tok, login, tresp) ==
    IF cfg.username = "" /\ cfg.password = "" /\ cfg.serial = ""
    THEN [err |-> "Exception", token |-> tok, events |-> <<>>]
    ELSE IF login = "unreachable"
    THEN [err |-> "ConnectionError", token |-> tok, events |-> <<"login_post">>]
    ELSE IF tresp.kind = "unreachable"
    THEN [err |-> "ConnectionError", token |-> tok,
          events |-> <<"login_post", "token_get">>]
    ELSE IF tresp.kind = "notjson"
    THEN [err |-> "JSONDecodeError", token |-> tok,
          events |-> <<"login_post", "token_get">>]
    ELSE IF tresp.kind = "missingfield"
    THEN [err |-> "TypeError", token |-> tok,
          events |-> <<"login_post", "token_get">>]
    ELSE [err |-> "ok", token |-> tresp.body,
          events |-> <<"login_post", "token_get">>]

\* save: writes config and token as one JSON document
save(cfg, tok) ==
    FileOf(cfg,
           EnphaseToken(tok.token, JsonLoad(JsonDump(tok.generation_time)),
                        JsonLoad(JsonDump(tok.expires_at))))

\* --------------------------------------------------------- gateway session
NoSession == [open |-> FALSE, bearer |-> "none"]
GatewayResponses == {"ok", "rejected", "unreachable"}

\* variant: the cache test is dropped, every call bootstraps again
create_envoy_session_nocache(sess, tok, gw) ==
    IF gw = "unreachable"
    THEN [err |-> "ConnectionError", session |-> sess,
          events |-> <<"create_envoy_session", "check_jwt">>]
    ELSE [err |-> "ok", session |-> [open |-> TRUE, bearer |-> tok.token],
          events |-> <<"create_envoy_session", "check_jwt">>]

\* create_envoy_session: one GET /auth/check_jwt when nothing is cached;
\* the response status is not inspected, a transport error propagates.
\* events: the call itself, then the request it sends (if any).
create_envoy_session(sess, tok, gw) ==
    IF ~sess.open
    THEN IF gw = "unreachable"
         THEN [err |-> "ConnectionError", session |-> sess,
               events |-> <<"create_envoy_session", "check_jwt">>]
         ELSE [err |-> "ok", session |-> [open |-> TRUE, bearer |-> tok.token],
               events |-> <<"create_envoy_session", "check_jwt">>]
    ELSE [err |-> "ok", session |-> sess,
          events |-> <<"create_envoy_session">>]

\* ------------------------------------------------------ ensemble inventory
\* A device carries the two fields the reduction reads.
Device(m, pf) == [mains_oper_state |-> m, percentFull |-> pf]
PercentVals == {Str(80), Str(60), Str(150), PyBad, PyNone}
EnpowerDevices == {Device(m, PyNone) : m \in {"closed", "open"}}
EnchargeDevices == {Device("none", pf) : pf \in PercentVals}

SeqsUpTo(S, n) == UNION {[1..m -> S] : m \in 0..n}

Entry(t, ds) == [type |-> t, devices |-> ds]
EnpowerEntries == {Entry("ENPOWER", ds) : ds \in SeqsUpTo(EnpowerDevices, 1)}
EnchargeEntries(n) == {Entry("ENCHARGE", ds) : ds \in SeqsUpTo(EnchargeDevices, n)}
OtherEntry == Entry("OTHER", <<>>)

\* inventories with at most n battery devices
Inventories(n) ==
    {<<>>, <<OtherEntry>>}
        \cup {<<p>> : p \in EnpowerEntries}
        \cup {<<c>> : c \in EnchargeEntries(n)}
        \cup {<<p, c>> : p \in EnpowerEntries, c \in EnchargeEntries(n)}
        \cup {<<c, OtherEntry, p>> : p \in EnpowerEntries, c \in EnchargeEntries(n)}

\* what GET /ivp/ensemble/inventory can answer
FetchResponses ==
    {[kind |-> k, data |-> <<>>] : k \in {"unreachable", "badbody"}}
        \cup {[kind |-> "ok", data |-> d] : d \in Inventories(MaxDevices)}

\* ivp_ensemble_inventory: session first, then one GET, then json.loads
ivp_ensemble_inventory(sess, tok, gw, fetch) ==
    LET c == create_envoy_session(sess, tok, gw)
    IN  IF c.err # "ok"
        THEN [err |-> c.err, session |-> c.session, events |-> c.events,
              data |-> <<>>]
        ELSE IF fetch.kind = "unreachable"
        THEN [err |-> "ConnectionError", session |-> c.session,
              events |-> c.events \o <<"inventory">>, data |-> <<>>]
        ELSE IF fetch.kind = "badbody"
        THEN [err |-> "JSONDecodeError", session |-> c.session,
              events |-> c.events \o <<"inventory">>, data |-> <<>>]
        ELSE [err |-> "ok", session |-> c.session,
              events |-> c.events \o <<"inventory">>, data |-> fetch.data]

\* ------------------------------------------------ process_ensemble_inventory
NoSummary ==
    [present |-> FALSE, grid_status |-> "none", battery_levels |-> <<>>,
     battery_level |-> [num |-> 0, den |-> 1]]

\* next(item for item in data if item.get('type') == t): index, 0 if none
FirstOfType(data, t) ==
    IF \E i \in 1..Len(data) : data[i].type = t
    THEN CHOOSE i \in 1..Len(data) :
            /\ data[i].type = t
            /\ \A j \in 1..(i - 1) : data[j].type # t
    ELSE 0

RECURSIVE SumSeq(_)
SumSeq(s) == IF s = <<>> THEN 0 ELSE s[1] + SumSeq(Tail(s))

\* variant: each level is inserted at the front of the list
RECURSIVE BatteryLevels_reversed(_)
BatteryLevels_reversed(ds) ==
    IF ds = <<>> THEN [err |-> "ok", levels |-> <<>>]
    ELSE LET r == PyInt(ds[1].percentFull)
         IN  IF r.err # "ok" THEN [err |-> r.err, levels |-> <<>>]
             ELSE LET rest == BatteryLevels_reversed(Tail(ds))
                  IN  IF rest.err # "ok" THEN rest
                      ELSE [err |-> "ok", levels |-> rest.levels \o <<r.val>>]

\* the for loop over encharge devices: the levels appended so far, and the
\* exception of the first int() that fails
RECURSIVE BatteryLevels(_)
BatteryLevels(ds) ==
    IF ds = <<>> THEN [err |-> "ok", levels |-> <<>>]
    ELSE LET r == PyInt(ds[1].percentFull)
         IN  IF r.err # "ok" THEN [err |-> r.err, levels |-> <<>>]
             ELSE LET rest == BatteryLevels(Tail(ds))
                  IN  IF rest.err # "ok" THEN rest
                      ELSE [err |-> "ok", levels |-> <<r.val>> \o rest.levels]

process_ensemble_inventory(data) ==
    LET ip == FirstOfType(data, "ENPOWER")
        ic == FirstOfType(data, "ENCHARGE")
    IN  IF ip = 0 THEN [err |-> "StopIteration", summary |-> NoSummary]
        ELSE IF data[ip].devices = <<>>
        THEN [err |-> "IndexError", summary |-> NoSummary]
        ELSE IF ic = 0 THEN [err |-> "StopIteration", summary |-> NoSummary]
        ELSE LET b == BatteryLevels(data[ic].devices)
             IN  IF b.err # "ok" THEN [err |-> b.err, summary |-> NoSummary]
                 ELSE IF Len(b.levels) = 0
                 THEN [err |-> "ZeroDivisionError", summary |-> NoSummary]
                 ELSE [err |-> "ok",
                       summary |->
                         [present |-> TRUE,
                          grid_status |->
                            IF data[ip].devices[1].mains_oper_state = "closed"
                            THEN "UP" ELSE "DOWN",
                          battery_levels |-> b.levels,
                          battery_level |->
                            [num |-> SumSeq(b.levels), den |-> Len(b.levels)]]]

\* ------------------------------------------------------------ poll_enphase
\* variant: the breaker branch is taken whatever the grid status
GridIsDown_always(processed) == processed.grid_status \in {"UP", "DOWN"}

\* the `if processed_data.get("grid_status") == "DOWN"` test
GridIsDown(processed) == processed.grid_status = "DOWN"

\* variant: a reduction error is swallowed and the job still prints
poll_enphase_swallow(sess, tok, gw, fetch) ==
    LET r == ivp_ensemble_inventory(sess, tok, gw, fetch)
    IN  IF r.err # "ok"
        THEN [err |-> r.err, session |-> r.session, events |-> r.events,
              summary |-> NoSummary]
        ELSE LET p == process_ensemble_inventory(r.data)
             IN  [err |-> p.err, session |-> r.session,
                  events |-> r.events \o <<"reduce", "emit">>
                               \o (IF GridIsDown(p.summary)
                                   THEN <<"breaker">> ELSE <<>>),
                  summary |-> p.summary]

\* One run of the job: the calls it makes in order, the session it leaves
\* cached, the summary it printed, and the exception that escaped (if any).
poll_enphase(sess, tok, gw, fetch) ==
    LET r == ivp_ensemble_inventory(sess, tok, gw, fetch)
    IN  IF r.err # "ok"
        THEN [err |-> r.err, session |-> r.session, events |-> r.events,
              summary |-> NoSummary]
        ELSE LET p == process_ensemble_inventory(r.data)
             IN  IF p.err # "ok"
                 THEN [err |-> p.err, session |-> r.session,
                       events |-> r.events \o <<"reduce">>,
                       summary |-> NoSummary]
                 ELSE [err |-> "ok", session |-> r.session,
                       events |-> r.events \o <<"reduce", "emit">>
                                    \o (IF GridIsDown(p.summary)
                                        THEN <<"breaker">> ELSE <<>>),
                       summary |-> p.summary]

\* -------------------------------------------------------------------- load
\* variant: the renewed token is installed but not written back
load_nosave(f, t, login, tresp) ==
    IF ~f.exists
    THEN [err |-> "FileNotFoundError", config |-> NoConfig, token |-> NoToken,
          file |-> f, valid |-> "none", logins |-> 0, saves |-> 0]
    ELSE LET v == is_valid(f.token, t)
             g == get_new_token(f.config, f.token, login, tresp)
         IN  IF v = "Exception"
             THEN [err |-> "Exception", config |-> f.config, token |-> f.token,
                   file |-> f, valid |-> v, logins |-> 0, saves |-> 0]
             ELSE IF v = "True"
             THEN [err |-> "ok", config |-> f.config, token |-> f.token,
                   file |-> f, valid |-> v, logins |-> 0, saves |-> 0]
             ELSE IF g.err # "ok"
             THEN [err |-> g.err, config |-> f.config, token |-> g.token,
                   file |-> f, valid |-> v, logins |-> 1, saves |-> 0]
             ELSE [err |-> "ok", config |-> f.config, token |-> g.token,
                   file |-> f, valid |-> v, logins |-> 1, saves |-> 0]

\* load: read the file, install config and token, and when is_valid is
\* false fetch a new token and save.  Nothing is caught.
load(f, t, login, tresp) ==
    IF ~f.exists
    THEN [err |-> "FileNotFoundError", config |-> NoConfig, token |-> NoToken,
          file |-> f, valid |-> "none", logins |-> 0, saves |-> 0]
    ELSE LET v == is_valid(f.token, t)
             g == get_new_token(f.config, f.token, login, tresp)
         IN  IF v = "Exception"
             THEN [err |-> "Exception", config |-> f.config, token |-> f.token,
                   file |-> f, valid |-> v, logins |-> 0, saves |-> 0]
             ELSE IF v = "True"
             THEN [err |-> "ok", config |-> f.config, token |-> f.token,
                   file |-> f, valid |-> v, logins |-> 0, saves |-> 0]
             ELSE IF g.err # "ok"
             THEN [err |-> g.err, config |-> f.config, token |-> g.token,
                   file |-> f, valid |-> v, logins |-> 1, saves |-> 0]
             ELSE [err |-> "ok", config |-> f.config, token |-> g.token,
                   file |-> save(f.config, g.token), valid |-> v,
                   logins |-> 1, saves |-> 1]

\* ------------------------------------------------------------------- state
VARIABLES
    pc,             \* "start", "running", "aborted" (load raised),
                    \* "terminated" (a job's exception left the while loop)
    now,            \* the clock, epoch seconds
    file,           \* enphase.config on disk
    config,         \* Enphase._config
    token,          \* Enphase._token
    envoy_session,  \* Enphase._envoy_session
    cycles,         \* number of poll_enphase runs so far
    lastCycle,      \* calls made by the latest run, in order
    cycleErr,       \* "none" before any run, else "ok" or the exception
    cycleExpired,   \* the token was past expires_at when the latest run began
    lastGw,         \* gateway's answer to the latest run's check_jwt, or "none"
    lastSummary,    \* summary printed by the latest run
    bootstrapCalls, \* GET /auth/check_jwt requests sent so far
    loginCalls,     \* get_new_token calls so far
    breakerCalls,   \* times the breaker branch ran
    downCycles,     \* runs whose summary had grid_status DOWN
    validCall,      \* the is_valid call made by load: token, clock, result
    saveCalls,      \* save calls so far
    lastLogin,      \* the latest get_new_token call: inputs and outcome
    saved,          \* config and token that were in memory at the latest save
    inventory,      \* the data handed to process_ensemble_inventory
    reduced         \* what process_ensemble_inventory made of it

vars == <<pc, now, file, config, token, envoy_session, cycles, lastCycle,
          cycleErr, cycleExpired, lastGw, lastSummary, bootstrapCalls,
          loginCalls, breakerCalls, downCycles, validCall, saveCalls,
          lastLogin, saved, inventory, reduced>>

\* now > expires_at, for a token whose expires_at is an integer
Expired(tok, t) ==
    /\ PyInt(tok.expires_at).err = "ok"
    /\ t > PyInt(tok.expires_at).val

NoValidCall == [called |-> FALSE, token |-> NoToken, at |-> 0, result |-> "none"]
NoLogin ==
    [called |-> FALSE, config |-> NoConfig, login |-> "none", kind |-> "none",
     err |-> "none", events |-> <<>>, before |-> NoToken, after |-> NoToken]
NotSaved == [done |-> FALSE, config |-> NoConfig, token |-> NoToken]
NotReduced == [done |-> FALSE, err |-> "none", summary |-> NoSummary]

\* enphase.config as the process can find it at startup
StoredStarts == {Num(1), Num(MaxTime), PyNone}
StoredEnds == {Num(n) : n \in Stamps} \cup {PyBad}
StoredTokens == {EnphaseToken("t0", g, e) : g \in StoredStarts, e \in StoredEnds}
StoredConfigs ==
    {EnphaseConfig("x", "x", "x"), EnphaseConfig("x", "x", ""),
     EnphaseConfig("", "", "")}
Files == {NoFile} \cup {FileOf(c, tok) : c \in StoredConfigs, tok \in StoredTokens}

Init ==
    /\ pc = "start"
    /\ now = 1
    /\ file \in Files
    /\ config = NoConfig
    /\ token = NoToken
    /\ envoy_session = NoSession
    /\ cycles = 0
    /\ lastCycle = <<>>
    /\ cycleErr = "none"
    /\ cycleExpired = FALSE
    /\ lastGw = "none"
    /\ lastSummary = NoSummary
    /\ bootstrapCalls = 0
    /\ loginCalls = 0
    /\ breakerCalls = 0
    /\ downCycles = 0
    /\ validCall = NoValidCall
    /\ saveCalls = 0
    /\ lastLogin = NoLogin
    /\ saved = NotSaved
    /\ inventory = <<>>
    /\ reduced = NotReduced

\* the clock advances while the process lives
Tick ==
    /\ pc \in {"start", "running"}
    /\ now < MaxTime
    /\ now' = now + 1
    /\ UNCHANGED <<pc, file, config, token, envoy_session, cycles, lastCycle,
                   cycleErr, cycleExpired, lastGw, lastSummary, bootstrapCalls,
                   loginCalls, breakerCalls, downCycles, validCall,
                   saveCalls, lastLogin, saved, inventory, reduced>>

\* one call of enphase.load(); the process goes to okpc when it returns and
\* is over when it raises
RunLoad(okpc) ==
    \E login \in LoginResponses, tresp \in TokenResponses(now) :
        LET r == load(file, now, login, tresp)
            g == get_new_token(file.config, file.token, login, tresp)
        IN  /\ pc' = IF r.err = "ok" THEN okpc ELSE "aborted"
            /\ file' = r.file
            /\ config' = r.config
            /\ token' = r.token
            /\ loginCalls' = loginCalls + r.logins
            /\ saveCalls' = saveCalls + r.saves
            /\ validCall' = IF r.valid = "none" THEN validCall
                            ELSE [called |-> TRUE, token |-> file.token,
                                  at |-> now, result |-> r.valid]
            /\ lastLogin' = IF r.logins = 0 THEN lastLogin
                            ELSE [called |-> TRUE, config |-> r.config,
                                  login |-> login, kind |-> tresp.kind,
                                  err |-> g.err, events |-> g.events,
                                  before |-> file.token, after |-> r.token]

\* __main__: enphase.load() before the scheduler starts
Load ==
    /\ pc = "start"
    /\ RunLoad("running")
    /\ UNCHANGED <<now, envoy_session, cycles, lastCycle, cycleErr,
                   cycleExpired, lastGw, lastSummary, bootstrapCalls,
                   breakerCalls, downCycles, saved, inventory, reduced>>

Count(s, e) == Cardinality({i \in 1..Len(s) : s[i] = e})

\* run_pending() runs the due job; schedule does not catch what the job
\* raises and the while loop has no handler, so an exception ends the process.
Poll ==
    /\ pc = "running"
    /\ cycles < MaxCycles
    /\ \E gw \in GatewayResponses, fetch \in FetchResponses :
         LET r == poll_enphase(envoy_session, token, gw, fetch)
         IN  /\ pc' = IF r.err = "ok" THEN "running" ELSE "terminated"
             /\ envoy_session' = r.session
             /\ lastCycle' = r.events
             /\ cycleErr' = r.err
             /\ lastGw' = IF Count(r.events, "check_jwt") > 0 THEN gw ELSE "none"
             /\ lastSummary' = r.summary
             /\ bootstrapCalls' = bootstrapCalls + Count(r.events, "check_jwt")
             /\ breakerCalls' = breakerCalls + Count(r.events, "breaker")
             /\ downCycles' = IF r.summary.present /\ r.summary.grid_status = "DOWN"
                              THEN downCycles + 1 ELSE downCycles
    /\ cycles' = cycles + 1
    /\ cycleExpired' = Expired(token, now)
    /\ UNCHANGED <<now, file, config, token, loginCalls, validCall,
                   saveCalls, lastLogin, saved, inventory, reduced>>

Next == Tick \/ Load \/ Poll

Spec == Init /\ [][Next]_vars

\* ------------------------------------------------- is_valid on its own
\* enphase.py run as a script prints token.is_valid(); here the token under
\* test ranges over every combination of field values and clock reading.
AllTokens == {EnphaseToken("t0", g, e) : g \in StampVals, e \in StampVals}

InitValid ==
    /\ pc = "probe"
    /\ now \in Times
    /\ file = NoFile
    /\ config = NoConfig
    /\ token \in AllTokens
    /\ envoy_session = NoSession
    /\ cycles = 0
    /\ lastCycle = <<>>
    /\ cycleErr = "none"
    /\ cycleExpired = FALSE
    /\ lastGw = "none"
    /\ lastSummary = NoSummary
    /\ bootstrapCalls = 0
    /\ loginCalls = 0
    /\ breakerCalls = 0
    /\ downCycles = 0
    /\ validCall = NoValidCall
    /\ saveCalls = 0
    /\ lastLogin = NoLogin
    /\ saved = NotSaved
    /\ inventory = <<>>
    /\ reduced = NotReduced

CheckValid ==
    /\ pc = "probe"
    /\ ~validCall.called
    /\ validCall' = [called |-> TRUE, token |-> token, at |-> now,
                     result |-> is_valid(token, now)]
    /\ UNCHANGED <<pc, now, file, config, token, envoy_session, cycles,
                   lastCycle, cycleErr, cycleExpired, lastGw, lastSummary,
                   bootstrapCalls, loginCalls, breakerCalls, downCycles,
                   saveCalls, lastLogin, saved, inventory, reduced>>

NextValid == CheckValid

SpecValid == InitValid /\ [][NextValid]_vars

\* ------------------------------------ process_ensemble_inventory on its own
\* the reduction applied to every inventory with up to ReduceDevices batteries
InitReduce ==
    /\ pc = "reduce"
    /\ now = 1
    /\ file = NoFile
    /\ config = NoConfig
    /\ token = NoToken
    /\ envoy_session = NoSession
    /\ cycles = 0
    /\ lastCycle = <<>>
    /\ cycleErr = "none"
    /\ cycleExpired = FALSE
    /\ lastGw = "none"
    /\ lastSummary = NoSummary
    /\ bootstrapCalls = 0
    /\ loginCalls = 0
    /\ breakerCalls = 0
    /\ downCycles = 0
    /\ validCall = NoValidCall
    /\ saveCalls = 0
    /\ lastLogin = NoLogin
    /\ saved = NotSaved
    /\ inventory \in Inventories(ReduceDevices)
    /\ reduced = NotReduced

Reduce ==
    /\ pc = "reduce"
    /\ ~reduced.done
    /\ LET p == process_ensemble_inventory(inventory)
       IN  reduced' = [done |-> TRUE, err |-> p.err, summary |-> p.summary]
    /\ UNCHANGED <<pc, now, file, config, token, envoy_session, cycles,
                   lastCycle, cycleErr, cycleExpired, lastGw, lastSummary,
                   bootstrapCalls, loginCalls, breakerCalls, downCycles,
                   validCall, saveCalls, lastLogin, saved, inventory>>

NextReduce == Reduce

SpecReduce == InitReduce /\ [][NextReduce]_vars

\* ------------------------------------------------------- save, then load
\* a process holding a config and a token saves them; the next process
\* start loads the file
AllConfigs ==
    {EnphaseConfig(u, p, s) : u \in {"", "x"}, p \in {"", "x"}, s \in {"", "x"}}

InitStore ==
    /\ pc = "memory"
    /\ now \in Times
    /\ file = NoFile
    /\ config \in AllConfigs
    /\ token \in AllTokens
    /\ envoy_session = NoSession
    /\ cycles = 0
    /\ lastCycle = <<>>
    /\ cycleErr = "none"
    /\ cycleExpired = FALSE
    /\ lastGw = "none"
    /\ lastSummary = NoSummary
    /\ bootstrapCalls = 0
    /\ loginCalls = 0
    /\ breakerCalls = 0
    /\ downCycles = 0
    /\ validCall = NoValidCall
    /\ saveCalls = 0
    /\ lastLogin = NoLogin
    /\ saved = NotSaved
    /\ inventory = <<>>
    /\ reduced = NotReduced

Save ==
    /\ pc = "memory"
    /\ pc' = "saved"
    /\ file' = save(config, token)
    /\ saved' = [done |-> TRUE, config |-> config, token |-> token]
    /\ saveCalls' = saveCalls + 1
    /\ UNCHANGED <<now, config, token, envoy_session, cycles, lastCycle,
                   cycleErr, cycleExpired, lastGw, lastSummary, bootstrapCalls,
                   loginCalls, breakerCalls, downCycles, validCall, lastLogin,
                   inventory, reduced>>

Reload ==
    /\ pc = "saved"
    /\ RunLoad("loaded")
    /\ UNCHANGED <<now, envoy_session, cycles, lastCycle, cycleErr,
                   cycleExpired, lastGw, lastSummary, bootstrapCalls,
                   breakerCalls, downCycles, saved, inventory, reduced>>

NextStore == Save \/ Reload

SpecStore == InitStore /\ [][NextStore]_vars

\* ================================================================= claims
IsGatewayRequest(e) == e \in {"check_jwt", "inventory"}
IsPollStep(e) == e \in {"inventory", "reduce", "emit", "breaker"}
Failed == cycleErr \notin {"none", "ok"}

\* position of the first occurrence of e in s, Len(s) + 1 if there is none
FirstIndex(s, e) ==
    IF \E i \in 1..Len(s) : s[i] = e
    THEN CHOOSE i \in 1..Len(s) : s[i] = e /\ \A j \in 1..(i - 1) : s[j] # e
    ELSE Len(s) + 1

\* the token has both timestamps integer-coercible and issuedAt <= expiresAt
WellFormed(tok) ==
    /\ PyInt(tok.generation_time).err = "ok"
    /\ PyInt(tok.expires_at).err = "ok"
    /\ PyInt(tok.generation_time).val <= PyInt(tok.expires_at).val

\* C1: no gateway request (check_jwt bootstrap or inventory fetch) is sent
\* while the current token is expired: a run that began with an expired
\* token sends gateway requests only after a login has renewed the token.
C1_NoGatewayCallWithExpiredToken ==
    cycleExpired =>
        \A i \in 1..Len(lastCycle) :
            IsGatewayRequest(lastCycle[i])
                => FirstIndex(lastCycle, "login_post") < i

\* C2: a poll cycle that starts with an expired token invokes login before
\* it invokes create_envoy_session or ivp_ensemble_inventory.
C2_LoginFirstWhenExpired ==
    (cycles > 0 /\ cycleExpired) =>
        /\ Count(lastCycle, "login_post") > 0
        /\ FirstIndex(lastCycle, "login_post")
               < FirstIndex(lastCycle, "create_envoy_session")
        /\ FirstIndex(lastCycle, "login_post")
               < FirstIndex(lastCycle, "inventory")

\* C3: the cached session handle is returned (no bootstrap request) only if
\* it was created with the token that is current and that token has not
\* expired.
C3_CachedSessionOnlyForValidToken ==
    (Count(lastCycle, "create_envoy_session") > 0
        /\ Count(lastCycle, "check_jwt") = 0)
      => (envoy_session.bearer = token.token /\ ~cycleExpired)

\* C4: a create_envoy_session call made when an earlier call has cached a
\* session for the same, still valid token sends no bootstrap request and
\* changes nothing: one bootstrap request in total over the two calls.
C4_SecondCallIsCacheHit ==
    [][(/\ cycles' = cycles + 1
        /\ envoy_session.open
        /\ envoy_session.bearer = token.token
        /\ is_valid(token, now) = "True")
       => (/\ bootstrapCalls' = bootstrapCalls
           /\ bootstrapCalls' = 1
           /\ Count(lastCycle', "create_envoy_session") = 1
           /\ envoy_session' = envoy_session
           /\ token' = token
           /\ config' = config
           /\ file' = file)]_vars

C4_Witness ==
    /\ cycles >= 2
    /\ Count(lastCycle, "create_envoy_session") = 1
    /\ Count(lastCycle, "check_jwt") = 0
    /\ is_valid(token, now) = "True"
    /\ bootstrapCalls = 1

\* C5: a failed poll cycle does not end the scheduler: after a run that
\* raised, the process is still running and will execute the next tick.
C5_SchedulerSurvivesFailure ==
    Failed => pc = "running"

\* C6: the breaker action runs exactly once in a cycle whose summary says
\* DOWN and not at all in a cycle whose summary says UP; over the whole run
\* it has run as many times as there were DOWN cycles (no debouncing).
C6_BreakerOncePerDownCycle ==
    /\ lastSummary.present =>
          Count(lastCycle, "breaker")
              = (IF lastSummary.grid_status = "DOWN" THEN 1 ELSE 0)
    /\ breakerCalls = downCycles

C6_Witness ==
    /\ downCycles >= 2
    /\ breakerCalls >= 2
    /\ lastSummary.present
    /\ lastSummary.grid_status = "DOWN"
    /\ Count(lastCycle, "breaker") = 1

\* C7: a cycle in which a step raised emits no summary and does not run the
\* breaker action; a cycle that succeeded performed fetch, reduce, emit and
\* then (only when DOWN) the breaker action, in that order.
C7_FailedCycleDoesNothingElse ==
    /\ Failed =>
          /\ Count(lastCycle, "emit") = 0
          /\ Count(lastCycle, "breaker") = 0
          /\ ~lastSummary.present
    /\ cycleErr = "ok" =>
          SelectSeq(lastCycle, IsPollStep)
              = <<"inventory", "reduce", "emit">>
                  \o (IF lastSummary.grid_status = "DOWN"
                      THEN <<"breaker">> ELSE <<>>)

C7_Witness ==
    /\ Failed
    /\ Count(lastCycle, "inventory") = 1
    /\ Count(lastCycle, "reduce") = 1
    /\ Count(lastCycle, "emit") = 0

\* C8: when the gateway answers check_jwt with a non-success response,
\* create_envoy_session fails, no session is cached and the cycle ends
\* there (no retry, no further gateway request).
C8_RejectedBootstrapFails ==
    lastGw = "rejected" =>
        /\ Failed
        /\ ~envoy_session.open
        /\ Count(lastCycle, "check_jwt") = 1
        /\ lastCycle[Len(lastCycle)] = "check_jwt"

\* C9: for a well-formed token, is_valid is true exactly when
\* issuedAt <= now <= expiresAt.
C9_IsValidIffInWindow ==
    (validCall.called /\ WellFormed(validCall.token)) =>
        validCall.result
            = (IF /\ PyInt(validCall.token.generation_time).val <= validCall.at
                  /\ validCall.at <= PyInt(validCall.token.expires_at).val
               THEN "True" ELSE "False")

\* C10: is_valid raises for a malformed token (missing, non-integer or
\* inconsistent timestamps) and returns a boolean for a well-formed one.
C10_MalformedIsErrorNotFalse ==
    validCall.called =>
        IF WellFormed(validCall.token)
        THEN validCall.result \in {"True", "False"}
        ELSE validCall.result = "Exception"

\* ---- claims about the reduction
HasType(data, t) == \E i \in 1..Len(data) : data[i].type = t
\* the (single) entry of type t
TheEntry(data, t) == data[CHOOSE i \in 1..Len(data) : data[i].type = t]
IntCoercible(x) == x.k \in {"num", "str"}
RECURSIVE Total(_)
Total(s) == IF Len(s) = 0 THEN 0 ELSE s[Len(s)] + Total(SubSeq(s, 1, Len(s) - 1))

\* the inventories C12 is about
Reducible(data) ==
    /\ HasType(data, "ENPOWER")
    /\ Len(TheEntry(data, "ENPOWER").devices) >= 1
    /\ HasType(data, "ENCHARGE")
    /\ Len(TheEntry(data, "ENCHARGE").devices) >= 1
    /\ \A i \in 1..Len(TheEntry(data, "ENCHARGE").devices) :
          IntCoercible(TheEntry(data, "ENCHARGE").devices[i].percentFull)

\* percentFull of each battery as an integer, in device order
ExpectedLevels(data) ==
    [i \in 1..Len(TheEntry(data, "ENCHARGE").devices) |->
        TheEntry(data, "ENCHARGE").devices[i].percentFull.v]

C13_MissingDeviceNamed ==
    reduced.done =>
        /\ ~HasType(inventory, "ENPOWER") =>
              (reduced.err = "MissingDevice(ENPOWER)" /\ ~reduced.summary.present)
        /\ (HasType(inventory, "ENPOWER") /\ ~HasType(inventory, "ENCHARGE")) =>
              (reduced.err = "MissingDevice(ENCHARGE)" /\ ~reduced.summary.present)

\* C14: with an ENCHARGE entry whose device list is empty (and a usable
\* ENPOWER entry) the reduction fails with the dedicated NoBatteries error
\* and returns no summary.
C14_NoBatteriesError ==
    (/\ reduced.done
     /\ HasType(inventory, "ENPOWER")
     /\ Len(TheEntry(inventory, "ENPOWER").devices) >= 1
     /\ HasType(inventory, "ENCHARGE")
     /\ Len(TheEntry(inventory, "ENCHARGE").devices) = 0) =>
        (reduced.err = "NoBatteries" /\ ~reduced.summary.present)

\* C17: every summary the reduction returns has all battery levels within
\* 0..100.
C17_LevelsWithinRange ==
    (reduced.done /\ reduced.summary.present) =>
        \A i \in 1..Len(reduced.summary.battery_levels) :
            /\ reduced.summary.battery_levels[i] >= 0
            /\ reduced.summary.battery_levels[i] <= 100

\* ---- claims about the credential store and the login
\* C11: save followed by load yields the config and the token that were
\* saved, equal in all fields, whether or not the token is valid at load time.
C11_SaveLoadRoundTrip ==
    (pc = "loaded" /\ saved.done) =>
        (config = saved.config /\ token = saved.token)

LoginPosted == lastLogin.called /\ Count(lastLogin.events, "login_post") > 0

\* C15: when the login endpoint rejects the credentials, get_new_token
\* fails, requests no token and leaves the current token unchanged.
C15_RejectedLoginFails ==
    (LoginPosted /\ lastLogin.login = "rejected") =>
        /\ lastLogin.err # "ok"
        /\ Count(lastLogin.events, "token_get") = 0
        /\ lastLogin.after = lastLogin.before

\* C16: the current token of a running process is a well-formed token, and
\* a token response that is not well-formed makes get_new_token fail and
\* keep the previous token.
C16_CurrentTokenWellFormed ==
    /\ pc = "running" => WellFormed(token)
    /\ (lastLogin.called /\ lastLogin.err = "ok")
         => WellFormed(lastLogin.after)

\* C18: get_new_token raises and sends no login POST whenever any one of
\* username, password or serial is empty.
C18_AnyEmptyFieldRefused ==
    (/\ lastLogin.called
     /\ \/ lastLogin.config.username = ""
        \/ lastLogin.config.password = ""
        \/ lastLogin.config.serial = "") =>
        /\ lastLogin.err = "Exception"
        /\ Count(lastLogin.events, "login_post") = 0

\* C19: a poll cycle leaves config, token and file unchanged and calls no
\* login; it can only set the cached session, once: a cached session is
\* never replaced or cleared, and at most one bootstrap request is ever made.
C19_PollOnlySetsSessionOnce ==
    [][(cycles' = cycles + 1) =>
          /\ config' = config
          /\ token' = token
          /\ file' = file
          /\ loginCalls' = loginCalls
          /\ saveCalls' = saveCalls
          /\ Count(lastCycle', "login_post") = 0
          /\ envoy_session.open => envoy_session' = envoy_session
          /\ bootstrapCalls' <= 1]_vars

C19_Witness ==
    /\ cycles >= 2
    /\ cycleErr = "ok"
    /\ envoy_session.open
    /\ bootstrapCalls = 1
    /\ Count(lastCycle, "inventory") = 1

\* C20: when load has returned, the file's token is the token in memory;
\* a load that found the token valid made no login and no save, a load that
\* found it not valid made exactly one login and one save.
C20_LoadKeepsFileInStep ==
    pc \in {"running", "terminated"} =>
        /\ file.exists
        /\ file.token = token
        /\ file.config = config
        /\ validCall.result = "True" => (loginCalls = 0 /\ saveCalls = 0)
        /\ validCall.result = "False" => (loginCalls = 1 /\ saveCalls = 1)
        /\ validCall.result \in {"True", "False"}

C20_Witness ==
    /\ pc = "running"
    /\ cycles = 0
    /\ validCall.result = "False"
    /\ Expired(validCall.token, validCall.at)
    /\ loginCalls = 1
    /\ saveCalls = 1
    /\ token.token = "t1"
    /\ file.token = token

====
